---------------------------- MODULE Spec2Model ----------------------------
(***************************************************************************)
(* Model of the yew-tiptap TiptapInstance component                        *)
(* (src/src/tiptap_instance.rs, src/src/lib.rs).                           *)
(*                                                                         *)
(* One mounted component is modelled.  Every lifecycle method of the       *)
(* Component impl (create, rendered, update, destroy) is a pure operator   *)
(* that returns the ordered trace of the effects the method performs:      *)
(* calls into js_tiptap (the Bridge) and emissions to the host callbacks.  *)
(* The actions apply such a trace to the state.  The methods read          *)
(* ctx.props() afresh on every call; once the first render is done the     *)
(* host may replace the props (Component::changed is not overridden).  The *)
(* two closures handed to the editor only send a message to the component; *)
(* update handles it when the framework delivers it.                       *)
(***************************************************************************)
EXTENDS Naturals, Sequences, FiniteSets

VARIABLES
    props,       \* ctx.props(): the Props the component currently holds
    mountProps,  \* the Props of Component::create, remembered until the
                 \* method that follows the first rendered() has run
    lifecycle,   \* "Unmounted" | "Uninitialized" | "Attached" | "Detached"
    renders,     \* number of rendered() calls so far (first_render <=> 0)
    queue,       \* messages the closures sent that update has not handled
    linkLog,     \* every value on_link received, in order
    createLog,   \* every js_tiptap::create call, in order
    lastOp,      \* the lifecycle method that ran last
    lastMsg,     \* the Msg the last update() handled
    lastJs,      \* what the editor answered to the last update()'s query
    lastFirst,   \* the first_render argument of the last rendered()
    lastEvents,  \* the effects of the method that ran last, in order
    lastRet      \* the bool the last update() returned

vars == <<props, mountProps, lifecycle, renders, queue, linkLog, createLog,
          lastOp, lastMsg, lastJs, lastFirst, lastEvents, lastRet>>

---------------------------------------------------------------------------
(* Bounds and input domains                                                *)

\* Cap on the number of rendered() calls in one lifetime.
MaxRenders == 3

\* Cap on the number of sent, not yet handled messages.
MaxQueue == 1

Ids == {"editor-1", "editor-2"}
Contents == {"<p>start</p>", "<p>hello</p>"}
Titles == {"image.png", "x"}
Alts == {"An example image"}
Urls == {"https://my-site.com/public/image.png", "x"}

\* Option<T>: None is the empty sequence, Some(v) the one-element sequence.
None == << >>
Some(v) == <<v>>

\* ctx.link(): the Scope of this component instance.
Scope == "scope"

---------------------------------------------------------------------------
(* Data types                                                              *)

ImageResource == [title : Titles, alt : Alts, url : Urls]

\* class is omitted: only view() reads it.  A callback prop is represented
\* by whether it is registered.
Props ==
    [id : Ids, content : Contents, disabled : BOOLEAN,
     on_selection_change : BOOLEAN, on_content_change : BOOLEAN]

NoProps == [id |-> "(none)"]

SimpleCommands ==
    {"H1", "H2", "H3", "Paragraph", "Bold", "Italic", "Strike", "Blockquote",
     "Highlight", "AlignLeft", "AlignCenter", "AlignRight", "AlignJustify"}

CommandTypes == SimpleCommands \cup {"SetImage"}

NoMsg == [type |-> "none"]

Msg ==
    [type : {"_SelectionChanged"}]
    \cup [type : {"_ContentChanged"}, content : Contents]
    \cup [type : SimpleCommands]
    \cup [type : {"SetImage"}, resource : ImageResource]

CommandMsgs == {m \in Msg : m.type \in CommandTypes}

\* js_tiptap::State, reduced to two of its flags.
State == [h1 : BOOLEAN, bold : BOOLEAN]

DefaultState == [h1 |-> FALSE, bold |-> FALSE]

\* What the external editor can hand back for getState: each field holds a
\* JS boolean, or null when the shape is not the expected one.
JsPrimitives == {"true", "false", "null"}
JsValues == [{"h1", "bold"} -> JsPrimitives]

\* Stands for the editor's answer in a method that does not ask.
NoJs == [f \in {"h1", "bold"} |-> "false"]

Selection(state) == [state |-> state]
Content(content) == [content |-> content]

---------------------------------------------------------------------------
(* Effects                                                                 *)

Emit(cb, value) == [kind |-> "emit", cb |-> cb, value |-> value]
LogError == [kind |-> "log"]

CallCreate(id, content, editable) ==
    [kind |-> "bridge", fn |-> "create", id |-> id,
     initialContent |-> content, editable |-> editable]
CallGetState(id) == [kind |-> "bridge", fn |-> "get_state", id |-> id]
CallToggleHeading(id, level) ==
    [kind |-> "bridge", fn |-> "toggle_heading", id |-> id, level |-> level]
CallUnary(fn, id) == [kind |-> "bridge", fn |-> fn, id |-> id]
\* set_image takes its four arguments by position.
CallSetImage(a1, a2, a3, a4) ==
    [kind |-> "bridge", fn |-> "set_image", args |-> <<a1, a2, a3, a4>>]

IsBridge(e) == e.kind = "bridge"
IsCreate(e) == e.kind = "bridge" /\ e.fn = "create"
IsGetState(e) == e.kind = "bridge" /\ e.fn = "get_state"
IsLink(e) == e.kind = "emit" /\ e.cb = "on_link"
IsSelectionEmit(e) == e.kind = "emit" /\ e.cb = "on_selection_change"
IsContentEmit(e) == e.kind = "emit" /\ e.cb = "on_content_change"
IsHostEmit(e) == IsSelectionEmit(e) \/ IsContentEmit(e) \/ IsLink(e)

RECURSIVE Values(_)
Values(es) ==
    IF es = << >> THEN << >> ELSE <<es[1].value>> \o Values(Tail(es))

Last(s) == s[Len(s)]

---------------------------------------------------------------------------
(* js_tiptap (the Bridge): the one fallible read                           *)

JsBool(v) == v \in {"true", "false"}

\* js_tiptap::get_state: deserialises the editor's JS value into a State,
\* or fails with a deserialization error when the shape is unexpected.
get_state(id, js) ==
    IF JsBool(js["h1"]) /\ JsBool(js["bold"])
    THEN [ok |-> TRUE,
          state |-> [h1 |-> js["h1"] = "true", bold |-> js["bold"] = "true"]]
    ELSE [ok |-> FALSE, err |-> "deserialization"]

---------------------------------------------------------------------------
(* The component's methods, as traces of effects                           *)

\* Variant: a failed query keeps whatever could be read instead of
\* falling back to the default.
fetch_selection_state_lenient(p, js) ==
    LET r == get_state(p.id, js) IN
    IF r.ok
    THEN [events |-> <<CallGetState(p.id)>>, state |-> r.state]
    ELSE [events |-> <<CallGetState(p.id), LogError>>,
          state |-> [h1 |-> js["h1"] = "true", bold |-> js["bold"] = "true"]]

fetch_selection_state(p, js) ==
    LET r == get_state(p.id, js) IN
    IF r.ok
    THEN [events |-> <<CallGetState(p.id)>>, state |-> r.state]
    ELSE [events |-> <<CallGetState(p.id), LogError>>, state |-> DefaultState]

\* Variant: linking is not deferred.
create_eager(p) == <<Emit("on_link", Some(Scope))>>

create(p) == <<Emit("on_link", None)>>

\* Variant: the link is not revoked.
destroy_silent(p) == << >>

destroy(p) == <<Emit("on_link", None)>>

\* Variant: first_render is ignored.
rendered_every(p, first_render) ==
    <<CallCreate(p.id, p.content, ~p.disabled),
      Emit("on_link", Some(Scope))>>

\* Variant: the disabled flag is passed on without negation.
rendered_disabled(p, first_render) ==
    IF first_render
    THEN <<CallCreate(p.id, p.content, p.disabled),
           Emit("on_link", Some(Scope))>>
    ELSE << >>

rendered(p, first_render) ==
    IF first_render
    THEN <<CallCreate(p.id, p.content, ~p.disabled),
           Emit("on_link", Some(Scope))>>
    ELSE << >>

\* Variant: a handled notification asks for a re-render.
selection_changed_render(p, js) ==
    IF p.on_selection_change
    THEN LET f == fetch_selection_state(p, js) IN
         [events |-> f.events \o
                     <<Emit("on_selection_change", Selection(f.state))>>,
          ret |-> TRUE]
    ELSE [events |-> << >>, ret |-> FALSE]

\* update, arm Msg::_SelectionChanged
selection_changed(p, js) ==
    IF p.on_selection_change
    THEN LET f == fetch_selection_state(p, js) IN
         [events |-> f.events \o
                     <<Emit("on_selection_change", Selection(f.state))>>,
          ret |-> FALSE]
    ELSE [events |-> << >>, ret |-> FALSE]

\* Variant: the initial content prop is emitted instead of the new content.
content_changed_stale(p, content) ==
    IF p.on_content_change
    THEN [events |-> <<Emit("on_content_change", Content(p.content))>>,
          ret |-> FALSE]
    ELSE [events |-> << >>, ret |-> FALSE]

\* update, arm Msg::_ContentChanged
content_changed(p, content) ==
    IF p.on_content_change
    THEN [events |-> <<Emit("on_content_change", Content(content))>>,
          ret |-> FALSE]
    ELSE [events |-> << >>, ret |-> FALSE]

\* update, arms Msg::H1 .. Msg::AlignJustify: the Bridge call of each
command_call(id, type) ==
    CASE type = "H1" -> CallToggleHeading(id, "H1")
      [] type = "H2" -> CallToggleHeading(id, "H2")
      [] type = "H3" -> CallToggleHeading(id, "H3")
      [] type = "Paragraph" -> CallUnary("set_paragraph", id)
      [] type = "Bold" -> CallUnary("toggle_bold", id)
      [] type = "Italic" -> CallUnary("toggle_italic", id)
      [] type = "Strike" -> CallUnary("toggle_strike", id)
      [] type = "Blockquote" -> CallUnary("toggle_blockquote", id)
      [] type = "Highlight" -> CallUnary("toggle_highlight", id)
      [] type = "AlignLeft" -> CallUnary("set_text_align_left", id)
      [] type = "AlignCenter" -> CallUnary("set_text_align_center", id)
      [] type = "AlignRight" -> CallUnary("set_text_align_right", id)
      [] type = "AlignJustify" -> CallUnary("set_text_align_justify", id)

\* update, arm Msg::SetImage
set_image(p, resource) ==
    [events |-> <<CallSetImage(p.id, resource.url, resource.alt,
                               resource.title)>>,
     ret |-> TRUE]

\* update: the effects of handling msg and the bool it returns.  js is what
\* the external editor answers should the handler query its state.
update(p, msg, js) ==
    CASE msg.type = "_SelectionChanged" -> selection_changed(p, js)
      [] msg.type = "_ContentChanged" -> content_changed(p, msg.content)
      [] msg.type \in SimpleCommands ->
            [events |-> <<command_call(p.id, msg.type)>>, ret |-> TRUE]
      [] msg.type = "SetImage" -> set_image(p, msg.resource)

---------------------------------------------------------------------------
(* The closures handed to the editor                                       *)

\* create, changed_callback: |content| Msg::_ContentChanged { content }
changed_callback(text) == [type |-> "_ContentChanged", content |-> text]

\* create, selection_changed_callback: |_| Msg::_SelectionChanged
selection_changed_callback == [type |-> "_SelectionChanged"]

---------------------------------------------------------------------------
(* State machine                                                           *)

Alive == lifecycle \in {"Uninitialized", "Attached"}

\* The value the host received last through on_link.
HostLink == IF linkLog = << >> THEN None ELSE Last(linkLog)

\* The effects of one method take place in order.
Apply(op, msg, js, first, events, ret) ==
    /\ lastJs' = js
    /\ linkLog' = linkLog \o Values(SelectSeq(events, IsLink))
    /\ createLog' = createLog \o SelectSeq(events, IsCreate)
    /\ lastOp' = op
    /\ lastMsg' = msg
    /\ lastFirst' = first
    /\ lastEvents' = events
    /\ lastRet' = ret

\* The mount-time props are forgotten by the method that follows the first
\* rendered().
Forget == mountProps' = NoProps

Init ==
    /\ props \in Props
    /\ mountProps = NoProps
    /\ lifecycle = "Unmounted"
    /\ renders = 0
    /\ lastJs = NoJs
    /\ queue = << >>
    /\ linkLog = << >>
    /\ createLog = << >>
    /\ lastOp = "none"
    /\ lastMsg = NoMsg
    /\ lastFirst = FALSE
    /\ lastEvents = << >>
    /\ lastRet = FALSE

\* The framework mounts the component: Component::create.
Create ==
    /\ lifecycle = "Unmounted"
    /\ lifecycle' = "Uninitialized"
    /\ mountProps' = props
    /\ Apply("create", NoMsg, NoJs, FALSE, create(props), FALSE)
    /\ UNCHANGED <<props, renders, queue>>

\* The host supplies new prop values.  Component::changed is not
\* overridden: the framework replaces ctx.props() and asks for a re-render;
\* no method of the component has an effect.  The framework handles a props
\* update only after the component's create, first render and first
\* rendered().
PropsChanged ==
    /\ lifecycle = "Attached"
    /\ \E p \in Props \ {props} : props' = p
    /\ Forget
    /\ Apply("changed", NoMsg, NoJs, FALSE, << >>, TRUE)
    /\ UNCHANGED <<lifecycle, renders, queue>>

\* The framework has rendered the component: Component::rendered, with
\* first_render true on the first call of the lifetime only.
Rendered ==
    /\ Alive
    /\ renders < MaxRenders
    /\ LET first_render == renders = 0 IN
       /\ Apply("rendered", NoMsg, NoJs, first_render,
                rendered(props, first_render), FALSE)
       /\ IF first_render THEN UNCHANGED mountProps ELSE Forget
    /\ lifecycle' = "Attached"
    /\ renders' = renders + 1
    /\ UNCHANGED <<props, queue>>

\* The host sends a command through the handle it holds and the framework
\* delivers it: Component::update.  Sending has no effect of its own, so the
\* step is the delivery.
HostDispatch ==
    /\ Alive
    /\ HostLink = Some(Scope)
    /\ \E msg \in CommandMsgs :
          LET r == update(props, msg, NoJs) IN
          Apply("update", msg, NoJs, FALSE, r.events, r.ret)
    /\ Forget
    /\ UNCHANGED <<props, lifecycle, renders, queue>>

\* The external editor calls the on_selection closure it was created with:
\* a message is sent.
EditorSelectionChanged ==
    /\ Alive
    /\ createLog # << >>
    /\ Len(queue) < MaxQueue
    /\ queue' = Append(queue, selection_changed_callback)
    /\ UNCHANGED <<props, mountProps, lifecycle, renders, linkLog, createLog,
                   lastOp, lastMsg, lastJs, lastFirst, lastEvents, lastRet>>

\* The external editor calls the on_change closure it was created with: a
\* message is sent.
EditorContentChanged ==
    /\ Alive
    /\ createLog # << >>
    /\ Len(queue) < MaxQueue
    /\ \E text \in Contents : queue' = Append(queue, changed_callback(text))
    /\ UNCHANGED <<props, mountProps, lifecycle, renders, linkLog, createLog,
                   lastOp, lastMsg, lastJs, lastFirst, lastEvents, lastRet>>

\* The framework delivers the oldest sent message: Component::update, with
\* the props of the moment of delivery.  js is what the external editor
\* answers at that moment should the handler query its state.
Deliver ==
    /\ Alive
    /\ queue # << >>
    /\ LET msg == Head(queue) IN
       \E js \in (IF msg.type = "_SelectionChanged" THEN JsValues
                  ELSE {NoJs}) :
          LET r == update(props, msg, js) IN
          Apply("update", msg, js, FALSE, r.events, r.ret)
    /\ queue' = Tail(queue)
    /\ Forget
    /\ UNCHANGED <<props, lifecycle, renders>>

\* The framework unmounts the component: Component::destroy.  Messages not
\* yet delivered are dropped.
Destroy ==
    /\ Alive
    /\ lifecycle' = "Detached"
    /\ queue' = << >>
    /\ Forget
    /\ Apply("destroy", NoMsg, NoJs, FALSE, destroy(props), FALSE)
    /\ UNCHANGED <<props, renders>>

Next ==
    \/ Create
    \/ PropsChanged
    \/ Rendered
    \/ HostDispatch
    \/ EditorSelectionChanged
    \/ EditorContentChanged
    \/ Deliver
    \/ Destroy

Spec == Init /\ [][Next]_vars

---------------------------------------------------------------------------
(* Properties                                                              *)

RECURSIVE Count(_, _)
Count(s, v) ==
    IF s = << >> THEN 0
    ELSE (IF s[1] = v THEN 1 ELSE 0) + Count(Tail(s), v)

Handled(type) == lastOp = "update" /\ lastMsg.type = type
HandledCommand == lastOp = "update" /\ lastMsg.type \in CommandTypes

\* The id the editor was created with.
BoundId == createLog[1].id

\* C1: the first value on_link receives is None, so no Some(handle) comes
\* before it, and exactly one Some(handle) is emitted in a lifetime in which
\* the first render happened (none in a lifetime in which it did not).
C1_LinkProtocol ==
    /\ lifecycle # "Unmounted" => linkLog # << >>
    /\ linkLog # << >> => linkLog[1] = None
    /\ Count(linkLog, Some(Scope)) = (IF renders > 0 THEN 1 ELSE 0)
    /\ \A i \in 1..Len(linkLog) : linkLog[i] \in {None, Some(Scope)}

C1_Witness ==
    /\ lifecycle = "Attached"
    /\ renders >= 2
    /\ lastOp = "update"
    /\ linkLog = <<None, Some(Scope)>>

\* C2: once the component is destroyed, the value on_link received last is
\* None and it was emitted by destroy, whether or not the first render had
\* happened.
C2_DestroyRevokes ==
    lifecycle = "Detached" =>
        /\ lastOp = "destroy"
        /\ lastEvents = <<Emit("on_link", None)>>
        /\ linkLog # << >>
        /\ Last(linkLog) = None

C2_Witness ==
    /\ lifecycle = "Detached"
    /\ renders > 0
    /\ linkLog = <<None, Some(Scope), None>>

\* The Bridge function the contract names for each command.
C3_Expected(id, msg) ==
    CASE msg.type \in {"H1", "H2", "H3"} ->
            [kind |-> "bridge", fn |-> "toggle_heading", id |-> id,
             level |-> msg.type]
      [] msg.type = "Paragraph" ->
            [kind |-> "bridge", fn |-> "set_paragraph", id |-> id]
      [] msg.type \in {"Bold", "Italic", "Strike", "Blockquote", "Highlight"} ->
            [kind |-> "bridge", id |-> id,
             fn |-> CASE msg.type = "Bold" -> "toggle_bold"
                      [] msg.type = "Italic" -> "toggle_italic"
                      [] msg.type = "Strike" -> "toggle_strike"
                      [] msg.type = "Blockquote" -> "toggle_blockquote"
                      [] msg.type = "Highlight" -> "toggle_highlight"]
      [] msg.type \in {"AlignLeft", "AlignCenter", "AlignRight",
                       "AlignJustify"} ->
            [kind |-> "bridge", id |-> id,
             fn |-> CASE msg.type = "AlignLeft" -> "set_text_align_left"
                      [] msg.type = "AlignCenter" -> "set_text_align_center"
                      [] msg.type = "AlignRight" -> "set_text_align_right"
                      [] msg.type = "AlignJustify" -> "set_text_align_justify"]

\* C3: a command handled while Attached makes exactly one Bridge call, the
\* one matching the command, with the id the editor was created with, and
\* nothing else: no other Bridge call and no host callback.
C3_CommandDispatch ==
    (HandledCommand /\ lifecycle = "Attached") =>
        /\ Len(lastEvents) = 1
        /\ IsBridge(lastEvents[1])
        /\ IF lastMsg.type = "SetImage"
           THEN /\ lastEvents[1].fn = "set_image"
                /\ lastEvents[1].args[1] = BoundId
           ELSE lastEvents[1] = C3_Expected(BoundId, lastMsg)

\* C4, for a host that registered on_selection_change: every handled
\* selection-changed notification makes exactly one get_state query, for the
\* bound id (the id the editor was created with), and exactly one Selection
\* is emitted, holding the queried state when the query succeeded.
C4_QueryBoundId ==
    (Handled("_SelectionChanged") /\ props.on_selection_change) =>
        /\ SelectSeq(lastEvents, IsBridge) = <<CallGetState(BoundId)>>
        /\ Len(SelectSeq(lastEvents, IsHostEmit)) = 1
        /\ IsSelectionEmit(Last(lastEvents))
        /\ get_state(BoundId, lastJs).ok =>
              Last(lastEvents).value
                 = Selection(get_state(BoundId, lastJs).state)

\* C5: when the query returns a malformed value, the host receives exactly
\* one Selection, its state is the default State, nothing else reaches the
\* host, and the component is still mounted with its handle published.
C5_MalformedFallsBack ==
    (/\ Handled("_SelectionChanged")
     /\ props.on_selection_change
     /\ ~get_state(props.id, lastJs).ok) =>
        /\ SelectSeq(lastEvents, IsHostEmit)
              = <<Emit("on_selection_change", Selection(DefaultState))>>
        /\ IsGetState(lastEvents[1])
        /\ lifecycle = "Attached"
        /\ HostLink = Some(Scope)

C5_Witness ==
    /\ Handled("_SelectionChanged")
    /\ props.on_selection_change
    /\ lastJs = [f \in {"h1", "bold"} |->
                    IF f = "h1" THEN "true" ELSE "null"]

\* C6: handling a content-changed notification carrying s emits exactly
\* Content{content: s} to on_content_change when that callback is
\* registered and nothing when it is not; no Bridge function is called.
C6_ContentPassThrough ==
    Handled("_ContentChanged") =>
        lastEvents = (IF props.on_content_change
                      THEN <<[kind |-> "emit", cb |-> "on_content_change",
                              value |-> [content |-> lastMsg.content]]>>
                      ELSE << >>)

C6_Witness ==
    /\ Handled("_ContentChanged")
    /\ props.on_content_change
    /\ lastMsg.content = "<p>hello</p>"
    /\ props.content = "<p>start</p>"

\* C7: SetImage(resource) makes exactly one Bridge call,
\* set_image(id, url, alt, title), with the bound id (the id the editor was
\* created with) and the resource's url, alt and title in that order.
C7_SetImageOrder ==
    Handled("SetImage") =>
        lastEvents =
            <<[kind |-> "bridge", fn |-> "set_image",
               args |-> <<BoundId, lastMsg.resource.url,
                          lastMsg.resource.alt, lastMsg.resource.title>>]>>

\* C8: Bridge create is called exactly once in a lifetime, by the first
\* render and by no later one, with the id and content the component was
\* mounted with and editable = NOT disabled of the mount;
\* on_link(Some(handle)) follows that call and never precedes it.
C8_CreateOnce ==
    /\ Len(createLog) = (IF renders > 0 THEN 1 ELSE 0)
    /\ Count(linkLog, Some(Scope)) <= Len(createLog)
    /\ (lastOp = "rendered" /\ lastFirst) =>
          /\ lastEvents =
                <<[kind |-> "bridge", fn |-> "create", id |-> mountProps.id,
                   initialContent |-> mountProps.content,
                   editable |-> (mountProps.disabled = FALSE)],
                  Emit("on_link", Some(Scope))>>
          /\ createLog = <<lastEvents[1]>>
    /\ (lastOp = "rendered" /\ ~lastFirst) => lastEvents = << >>

\* A later render, after the host replaced the props, did not create again.
C8_Witness ==
    /\ lastOp = "rendered"
    /\ ~lastFirst
    /\ renders >= 2
    /\ createLog = <<CallCreate("editor-1", "<p>start</p>", TRUE)>>
    /\ props.id = "editor-2"
    /\ props.disabled

\* C9: the host's most recent on_link value is Some(handle) only while the
\* instance is Attached (create has been called, destroy has not run), so a
\* command sent through that handle never reaches the Bridge before create
\* or after teardown.
C9_LinkOnlyWhileAttached ==
    /\ HostLink # None =>
          /\ lifecycle = "Attached"
          /\ Len(createLog) = 1
    /\ HandledCommand =>
          /\ lifecycle = "Attached"
          /\ Len(createLog) = 1

C9_Witness ==
    /\ HandledCommand
    /\ HostLink = Some(Scope)
    /\ renders = 1

\* C10: update returns true exactly for the toggle/set commands; both
\* internal messages return false, whether or not a callback is registered
\* and whether or not the selection query succeeded.
C10_RenderIffCommand ==
    lastOp = "update" => (lastRet <=> lastMsg.type \in CommandTypes)

C10_Witness ==
    /\ Handled("_SelectionChanged")
    /\ props.on_selection_change
    /\ ~get_state(props.id, lastJs).ok
    /\ lastRet = FALSE

===========================================================================
